---------------------------- MODULE Spec2Model ----------------------------
(***************************************************************************)
(* Model of the /check_piece request handler (Server.py) and of the 2D     *)
(* centre estimator it calls (lego_pose.py).                               *)
(*                                                                         *)
(* Representation.                                                         *)
(*   - A string is a sequence of one-character strings, so that strip()    *)
(*     and the "class_{id}" fallback are computed, not assumed.            *)
(*   - A confidence is an integer number of hundredths (45 is 0.45).  The  *)
(*     detector's float32 confidences are widened by float() without loss, *)
(*     so the reported value is the detector's value.                      *)
(*   - A pixel coordinate that results from a mean is an exact rational    *)
(*     [n, d] (numerator, denominator > 0); floating-point rounding of     *)
(*     np.mean and of the additions is not modelled.                       *)
(*   - Python's None and JSON's null are the empty sequence None; an       *)
(*     optional value x that is present is <<x>>.                          *)
(*   - int(h * 0.18) and int(h * (1.0 - 0.15)) are computed in integer     *)
(*     percent arithmetic; the two agree with the IEEE double computation  *)
(*     for every height from 1 to 200000.                                  *)
(***************************************************************************)
EXTENDS Integers, Sequences, FiniteSets, TLC

\* ------------------------------------------------------------------ bounds
\* The detector returns at most MaxDet detections for one frame.
MaxDet == 3
\* compute_center_from_keypoints is tried on at most MaxRows rows ...
MaxRows == 2
\* ... of at most MaxCols coordinates each.
MaxCols == 3

\* ------------------------------------------------------- program constants
\* top_cut_ratio = 0.18, in percent.
TopCutPct == 18
\* bottom_cut_ratio = 0.15, in percent.
BottomCutPct == 15
\* THRESH = 0.45, in hundredths.
THRESH == 45

None == <<>>

\* ------------------------------------------------------------------ strings
Whitespace == {" ", "\t"}

RECURSIVE LStrip(_)
LStrip(s) ==
  IF s # <<>> /\ Head(s) \in Whitespace THEN LStrip(Tail(s)) ELSE s

RECURSIVE RStrip(_)
RStrip(s) ==
  IF s # <<>> /\ s[Len(s)] \in Whitespace
  THEN RStrip(SubSeq(s, 1, Len(s) - 1))
  ELSE s

\* str.strip(): leading and trailing whitespace removed.
Strip(s) == RStrip(LStrip(s))

Digit(d) == <<"0", "1", "2", "3", "4", "5", "6", "7", "8", "9">>[d + 1]

\* The decimal text of a natural number, as an f-string formats it.
RECURSIVE DecStr(_)
DecStr(n) ==
  IF n < 10 THEN <<Digit(n)>> ELSE DecStr(n \div 10) \o <<Digit(n % 10)>>

\* model.names of the loaded weights: class id -> class name.
CLASS_NAMES == (0 :> <<"A">>) @@ (1 :> <<"B">>)

\* CLASS_NAMES.get(cls_id, f"class_{cls_id}")
ClassName(cls_id) ==
  IF cls_id \in DOMAIN CLASS_NAMES
  THEN CLASS_NAMES[cls_id]
  ELSE <<"c", "l", "a", "s", "s", "_">> \o DecStr(cls_id)

\* ---------------------------------------------------------------- rationals
Rat(n, d) == [n |-> n, d |-> d]

RatEq(a, b) == a.n * b.d = b.n * a.d

\* r + k for an integer k.
RatAddInt(r, k) == Rat(r.n + k * r.d, r.d)

RECURSIVE SumCol(_, _)
SumCol(pts, c) ==
  IF pts = <<>> THEN 0 ELSE Head(pts)[c] + SumCol(Tail(pts), c)

\* ------------------------------------------------------------ lego_pose.py
\* np.asarray(x, dtype=np.float32) of a value x = [kind, rows]:
\*   kind "none"   : not reached (None returns first)
\*   kind "scalar" : a number, ndim 0
\*   kind "flat"   : a sequence of numbers, ndim 1 (rows holds them as 1-rows)
\*   kind "rows"   : a sequence of rows; rows of one length L give shape
\*                   (N, L), the empty sequence gives shape (0,), and rows of
\*                   differing length make numpy raise ValueError.
Asarray(x) ==
  CASE x.kind = "scalar" -> [raised |-> FALSE, ndim |-> 0, shape |-> <<>>]
    [] x.kind = "flat" ->
         [raised |-> FALSE, ndim |-> 1, shape |-> <<Len(x.rows)>>]
    [] x.kind = "rows" /\ x.rows = <<>> ->
         [raised |-> FALSE, ndim |-> 1, shape |-> <<0>>]
    [] x.kind = "rows" /\ x.rows # <<>> ->
         IF \A i \in 1..Len(x.rows) : Len(x.rows[i]) = Len(x.rows[1])
         THEN [raised |-> FALSE, ndim |-> 2,
               shape |-> <<Len(x.rows), Len(x.rows[1])>>]
         ELSE [raised |-> TRUE, ndim |-> 0, shape |-> <<>>]
    [] OTHER -> [raised |-> TRUE, ndim |-> 0, shape |-> <<>>]

NoCenter == [kind |-> "none", cx |-> Rat(0, 1), cy |-> Rat(0, 1)]

RaisedCenter == [kind |-> "raise", cx |-> Rat(0, 1), cy |-> Rat(0, 1)]

\* The centre, None, or the exception of compute_center_from_keypoints.
compute_center_from_keypoints(keypoints_2d) ==
  IF keypoints_2d.kind = "none" THEN NoCenter
  ELSE LET pts == Asarray(keypoints_2d) IN
       IF pts.raised THEN RaisedCenter
       ELSE IF pts.ndim # 2 \/ pts.shape[2] # 2 \/ pts.shape[1] = 0
            THEN NoCenter
            ELSE [kind |-> "center",
                  cx |-> Rat(SumCol(keypoints_2d.rows, 1), pts.shape[1]),
                  cy |-> Rat(SumCol(keypoints_2d.rows, 2), pts.shape[1])]

\* Mutant of estimate_pose: a yaw of 0 is reported with a centre.
estimate_pose_yaw(keypoints_2d, part_id) ==
  LET center == compute_center_from_keypoints(keypoints_2d) IN
  [raised |-> center.kind = "raise", success |-> center.kind = "center",
   part_id |-> part_id,
   center_x |-> IF center.kind = "center" THEN <<center.cx>> ELSE None,
   center_y |-> IF center.kind = "center" THEN <<center.cy>> ELSE None,
   yaw |-> IF center.kind = "center" THEN <<0>> ELSE None,
   pitch |-> None, roll |-> None, reproj_error |-> None]

\* The dict estimate_pose returns; raised is TRUE when the exception of
\* compute_center_from_keypoints leaves estimate_pose instead.
estimate_pose(keypoints_2d, part_id) ==
  LET center == compute_center_from_keypoints(keypoints_2d) IN
  IF center.kind = "raise"
  THEN [raised |-> TRUE, success |-> FALSE, part_id |-> part_id,
        center_x |-> None, center_y |-> None,
        yaw |-> None, pitch |-> None, roll |-> None, reproj_error |-> None]
  ELSE IF center.kind = "none"
  THEN [raised |-> FALSE, success |-> FALSE, part_id |-> part_id,
        center_x |-> None, center_y |-> None,
        yaw |-> None, pitch |-> None, roll |-> None, reproj_error |-> None]
  ELSE [raised |-> FALSE, success |-> TRUE, part_id |-> part_id,
        center_x |-> <<center.cx>>, center_y |-> <<center.cy>>,
        yaw |-> None, pitch |-> None, roll |-> None, reproj_error |-> None]


\* ---------------------------------------------------------------- Server.py
VARIABLES
  pc,                 \* the handler's position
  request,            \* the request body as received
  expected_class, step_index,
  frame, frame_cropped, crop_y_start,
  boxes,              \* r.boxes: the detections, in detector order
  candidate_indices, best_i, best_conf, yolo_class,
  image_points, pose_result, angles,
  annotated, center_full,
  response,           \* the payload handed to jsonify
  sent,               \* payloads returned for the current request
  escaped,            \* an exception left check_piece
  raised,             \* the exception raised in the current request, if any
  entered,            \* the pipeline steps the current request entered
  detCalls,           \* calls of model(...) in the current request
  kp_pc, kp_in, kp_center, kp_pose   \* a direct call of lego_pose's API

vars ==
  <<pc, request, expected_class, step_index, frame, frame_cropped,
    crop_y_start, boxes, candidate_indices, best_i, best_conf, yolo_class,
    image_points, pose_result, angles, annotated, center_full, response,
    sent, escaped, raised, entered, detCalls, kp_pc, kp_in, kp_center,
    kp_pose>>

poseVars == <<kp_pc, kp_in, kp_center, kp_pose>>

\* ----------------------------------------------------------- request inputs
Heights == {1, 50, 1000}

Widths == {640}

NoImage == [b64 |-> FALSE, img |-> FALSE, h |-> 0, w |-> 0]

\* The image field: text that is not base64 (or null), base64 of bytes that
\* are no image, or base64 of an encoded image of h rows and w columns.
Images ==
  {NoImage, [b64 |-> TRUE, img |-> FALSE, h |-> 0, w |-> 0]}
    \cup {[b64 |-> TRUE, img |-> TRUE, h |-> h, w |-> w] :
            h \in Heights, w \in Widths}

ExpectedRaws ==
  {<<"A">>, <<" ", "A", "\t">>, <<"a">>,
   <<"c", "l", "a", "s", "s", "_", "7">>}

\* The step_index field: absent, a number, or text that int() rejects.
StepRaws ==
  {[present |-> FALSE, numeric |-> TRUE, val |-> 0],
   [present |-> TRUE, numeric |-> TRUE, val |-> 3],
   [present |-> TRUE, numeric |-> FALSE, val |-> 0]}

NoRequest ==
  [json_ok |-> TRUE, has_image |-> FALSE, has_expected |-> FALSE,
   image |-> NoImage, expected_raw |-> <<>>,
   step_raw |-> [present |-> FALSE, numeric |-> TRUE, val |-> 0]]

\* A body get_json rejects, an empty body, a body without one of the two
\* required fields, and the bodies that hold both.
Requests ==
  {[NoRequest EXCEPT !.json_ok = FALSE], NoRequest}
    \cup {[NoRequest EXCEPT !.has_image = TRUE, !.image = i] : i \in Images}
    \cup {[NoRequest EXCEPT !.has_expected = TRUE, !.expected_raw = e] :
            e \in ExpectedRaws}
    \cup {[json_ok |-> TRUE, has_image |-> TRUE, has_expected |-> TRUE,
           image |-> i, expected_raw |-> e, step_raw |-> s] :
            i \in Images, e \in ExpectedRaws, s \in StepRaws}

\* ---------------------------------------------------------- detector output
\* The class ids the detector reports: one that model.names knows and one
\* it does not.
ClsIds == {0, 7}

\* Confidences below, at and above THRESH.  No float32 equals the double
\* 0.45 (the nearest one, 0.44999998..., lies below it and behaves as 44);
\* 45 is kept so that the boundary of the comparison is part of the check.
Confs == {44, 45, 90}

Detections == [cls : ClsIds, conf : Confs]

DetectionSets == UNION {[1..n -> Detections] : n \in 0..MaxDet}

\* The keypoint arrays kpts[best_i].xy[0] may hold: K rows of 2 coordinates.
KpArrays ==
  {<<>>, <<<<50, 60>>>>, <<<<0, 0>>, <<2, 0>>, <<1, 2>>>>}

NoPoints == [kind |-> "none", rows |-> <<>>]

\* ------------------------------------------------------------------ images
\* An image value: h rows, w columns and the overlay drawn on it.
Image(h, w, overlay) == [h |-> h, w |-> w, overlay |-> overlay]

NoFrame == Image(0, 0, "none")

IsEmptyImage(img) == img.h = 0 \/ img.w = 0

\* cv2.imwrite asserts that the image is not empty: an empty image raises
\* cv2.error before anything is written.
ImwriteRaisesOn(img) == IsEmptyImage(img)

\* encode_image_to_base64: the JPEG bytes of the image, as base64 text.
encode_image_to_base64(img) == <<"base64", "jpg", img>>

\* ------------------------------------------------------------ crop_play_area
\* Mutant of CropYStart: rounded up instead of truncated.
CropYStartCeil(h) == (h * TopCutPct + 99) \div 100

\* int(h * top_cut_ratio)
CropYStart(h) == (h * TopCutPct) \div 100

\* int(h * (1.0 - bottom_cut_ratio))
CropYEnd(h) == (h * (100 - BottomCutPct)) \div 100

\* img[y_start:y_end, 0:w]: an empty range of rows gives an image of 0 rows.
crop_play_area(img) ==
  LET y_start == CropYStart(img.h)
      y_end == CropYEnd(img.h)
  IN [cropped |->
        Image(IF y_end > y_start THEN y_end - y_start ELSE 0, img.w,
              img.overlay),
      y_start |-> y_start, y_end |-> y_end]

\* --------------------------------------------------------------- selection
\* The indices (from 0, as in the code) of the detections whose class name
\* equals expected, in detector order.
RECURSIVE CandidatesFrom(_, _, _)
CandidatesFrom(bs, expected, i) ==
  IF i >= Len(bs) THEN <<>>
  ELSE (IF ClassName(bs[i + 1].cls) = expected THEN <<i>> ELSE <<>>)
         \o CandidatesFrom(bs, expected, i + 1)

\* max(candidate_indices, key=lambda idx: confs[idx]): the scan keeps the
\* first element whose key no later element exceeds.
RECURSIVE MaxScan(_, _, _, _)
MaxScan(cands, k, best, bs) ==
  IF k > Len(cands) THEN best
  ELSE MaxScan(cands, k + 1,
               IF bs[cands[k] + 1].conf > bs[best + 1].conf
               THEN cands[k] ELSE best,
               bs)

\* Mutant of PyMaxByConf: a scan that replaces the best on an equal key
\* returns the last of several maxima.
RECURSIVE MaxScanLast(_, _, _, _)
MaxScanLast(cands, k, best, bs) ==
  IF k > Len(cands) THEN best
  ELSE MaxScanLast(cands, k + 1,
                   IF bs[cands[k] + 1].conf >= bs[best + 1].conf
                   THEN cands[k] ELSE best,
                   bs)

PyMaxByConfLast(cands, bs) == MaxScanLast(cands, 2, cands[1], bs)

PyMaxByConf(cands, bs) == MaxScan(cands, 2, cands[1], bs)

\* Mutant of Matched: a strict comparison.
MatchedStrict(conf) == conf > THRESH

\* matched = best_conf >= THRESH
Matched(conf) == conf >= THRESH

\* ---------------------------------------------------------------- payloads
Sentinel == [x |-> Rat(-1, 1), y |-> Rat(-1, 1)]

NoAngles ==
  [yaw |-> None, pitch |-> None, roll |-> None, reproj_error |-> None]

NoResponse == [pending |-> TRUE]

\* Mutant of ErrorPayload: the message is left out.
ErrorPayloadBare(msg) == [success |-> FALSE]

ErrorPayload(msg) == [success |-> FALSE, error |-> msg]

\* Mutant of NotFoundPayload: the class asked for is echoed as yolo_class.
NotFoundPayloadEcho(img) ==
  [success |-> TRUE, found |-> FALSE, matched |-> FALSE,
   yolo_class |-> expected_class,
   expected_class |-> expected_class, step_index |-> step_index,
   confidence |-> 0, annotated_image |-> encode_image_to_base64(img),
   yaw |-> None, pitch |-> None, roll |-> None, reproj_error |-> None,
   center_x |-> center_full.x, center_y |-> center_full.y]

\* The payload of the two found=false returns.
NotFoundPayload(img) ==
  [success |-> TRUE, found |-> FALSE, matched |-> FALSE, yolo_class |-> <<>>,
   expected_class |-> expected_class, step_index |-> step_index,
   confidence |-> 0, annotated_image |-> encode_image_to_base64(img),
   yaw |-> None, pitch |-> None, roll |-> None, reproj_error |-> None,
   center_x |-> center_full.x, center_y |-> center_full.y]

\* float(v) if v is not None else None
OptFloat(v) == IF v # None THEN v ELSE None

\* The payload of the found=true return.
FoundPayload ==
  [success |-> TRUE, found |-> TRUE, matched |-> Matched(best_conf),
   yolo_class |-> yolo_class, expected_class |-> expected_class,
   step_index |-> step_index, confidence |-> best_conf,
   annotated_image |-> encode_image_to_base64(annotated),
   yaw |-> OptFloat(angles.yaw), pitch |-> OptFloat(angles.pitch),
   roll |-> OptFloat(angles.roll),
   reproj_error |-> OptFloat(angles.reproj_error),
   center_x |-> center_full.x, center_y |-> center_full.y]

\* ------------------------------------------------------ try / except Exception
\* Every exception the steps raise is a subclass of Exception.
ExceptionClasses ==
  {"BadRequest", "ValueError", "binascii.Error", "cv2.error", "RuntimeError"}

\* Mutant of Catches: except ValueError.
CatchesValueError(kind) == kind = "ValueError"

\* except Exception as e
Catches(kind) == kind \in ExceptionClasses

\* An exception of class kind is raised inside the try block: the except
\* clause returns the error payload, or the exception leaves the handler.
Raise(kind) ==
  /\ raised' = <<kind>>
  /\ pc' = "done"
  /\ IF Catches(kind)
     THEN /\ response' = ErrorPayload(kind)
          /\ sent' = sent + 1
          /\ escaped' = escaped
     ELSE /\ escaped' = TRUE
          /\ UNCHANGED <<response, sent>>

\* return jsonify(payload)
Return(payload) ==
  /\ response' = payload
  /\ sent' = sent + 1
  /\ pc' = "done"
  /\ UNCHANGED <<raised, escaped>>

Continue(next) ==
  /\ pc' = next
  /\ UNCHANGED <<response, sent, raised, escaped>>

\* ------------------------------------------------------------------- Init
\* The values the handler's locals hold before they are assigned.
LocalsAtEntry ==
  /\ expected_class = <<>>
  /\ step_index = -1
  /\ frame = NoFrame
  /\ frame_cropped = NoFrame
  /\ crop_y_start = 0
  /\ boxes = <<>>
  /\ candidate_indices = <<>>
  /\ best_i = 0
  /\ best_conf = 0
  /\ yolo_class = <<>>
  /\ image_points = NoPoints
  /\ pose_result = None
  /\ angles = NoAngles
  /\ annotated = NoFrame
  /\ center_full = Sentinel
  /\ response = NoResponse
  /\ sent = 0
  /\ escaped = FALSE
  /\ raised = None
  /\ entered = {}
  /\ detCalls = 0

PoseIdle ==
  /\ kp_pc = "off"
  /\ kp_in = NoPoints
  /\ kp_center = NoCenter
  /\ kp_pose = estimate_pose(NoPoints, <<>>)

Init ==
  /\ pc = "idle"
  /\ request = NoRequest
  /\ LocalsAtEntry
  /\ PoseIdle

\* ---------------------------------------------------------------- actions
\* A POST to /check_piece arrives.
Request ==
  /\ pc = "idle"
  /\ request' \in Requests
  /\ pc' = "parse"
  /\ UNCHANGED <<expected_class, step_index, frame, frame_cropped,
                 crop_y_start, boxes, candidate_indices, best_i, best_conf,
                 yolo_class, image_points, pose_result, angles, annotated,
                 center_full, response, sent, escaped, raised, entered,
                 detCalls, poseVars>>

\* not data or "image" not in data or "expected_class" not in data
MissingField(data) == ~data.has_image \/ ~data.has_expected

\* Lines 96-106: the body is read, the required fields are checked,
\* expected_class is trimmed and step_index is parsed.
ParseRequest ==
  /\ pc = "parse"
  /\ entered' = entered \cup {"Parsing"}
  /\ IF ~request.json_ok
     THEN /\ Raise("BadRequest")
          /\ UNCHANGED <<expected_class, step_index>>
     ELSE IF MissingField(request)
     THEN /\ Return(ErrorPayload("Missing 'image' or 'expected_class' in request"))
          /\ UNCHANGED <<expected_class, step_index>>
     ELSE /\ expected_class' = Strip(request.expected_raw)
          /\ IF ~request.step_raw.numeric
             THEN Raise("ValueError") /\ UNCHANGED step_index
             ELSE /\ step_index' = (IF request.step_raw.present
                                    THEN request.step_raw.val ELSE -1)
                  /\ Continue("decode")
  /\ UNCHANGED <<request, frame, frame_cropped, crop_y_start, boxes,
                 candidate_indices, best_i, best_conf, yolo_class,
                 image_points, pose_result, angles, annotated, center_full,
                 detCalls, poseVars>>

\* Mutant of DecodeFailed: the None check is missing.
DecodeNeverFails(image) == FALSE

\* frame is None
DecodeFailed(image) == ~image.img

\* Lines 109-117: base64 decoding and image decoding.
DecodeImage ==
  /\ pc = "decode"
  /\ entered' = entered \cup {"Decoding"}
  /\ IF ~request.image.b64
     THEN Raise("binascii.Error") /\ UNCHANGED frame
     ELSE IF DecodeFailed(request.image)
     THEN /\ Return(ErrorPayload("Failed to decode image from Base64"))
          /\ UNCHANGED frame
     ELSE /\ frame' = Image(request.image.h, request.image.w, "none")
          /\ Continue("crop")
  /\ UNCHANGED <<request, expected_class, step_index, frame_cropped,
                 crop_y_start, boxes, candidate_indices, best_i, best_conf,
                 yolo_class, image_points, pose_result, angles, annotated,
                 center_full, detCalls, poseVars>>

\* Line 120: frame_cropped, crop_y_start = crop_play_area(frame)
CropFrame ==
  /\ pc = "crop"
  /\ entered' = entered \cup {"Cropping"}
  /\ frame_cropped' = crop_play_area(frame).cropped
  /\ crop_y_start' = crop_play_area(frame).y_start
  /\ Continue("detect")
  /\ UNCHANGED <<request, expected_class, step_index, frame, boxes,
                 candidate_indices, best_i, best_conf, yolo_class,
                 image_points, pose_result, angles, annotated, center_full,
                 detCalls, poseVars>>

\* Lines 123-133: the model is called on the cropped frame; it raises or
\* returns its detections (for an empty frame too, either may happen).
RunDetector ==
  /\ pc = "detect"
  /\ entered' = entered \cup {"Detecting"}
  /\ detCalls' = detCalls + 1
  /\ \E fault \in BOOLEAN :
       IF fault
       THEN Raise("RuntimeError") /\ UNCHANGED boxes
       ELSE /\ boxes' \in DetectionSets
            /\ Continue(IF Len(boxes') = 0 THEN "nodet" ELSE "filter")
  /\ UNCHANGED <<request, expected_class, step_index, frame, frame_cropped,
                 crop_y_start, candidate_indices, best_i, best_conf,
                 yolo_class, image_points, pose_result, angles, annotated,
                 center_full, poseVars>>

\* cv2.imwrite(save_name, img) and the encoding of the same image for the
\* payload: the write raises on an empty image, and either call may fail.
SaveAndReturn(before, img, payload, fault) ==
  /\ IF ImwriteRaisesOn(img) \/ fault = "write"
     THEN /\ entered' = entered \cup before \cup {"DebugWrite"}
          /\ Raise("cv2.error")
     ELSE IF fault = "encode"
     THEN /\ entered' = entered \cup before \cup {"DebugWrite", "Encoding"}
          /\ Raise("cv2.error")
     ELSE /\ entered' = entered \cup before \cup {"DebugWrite", "Encoding"}
          /\ Return(payload)

IoFaults == {"none", "write", "encode"}

\* Lines 133-155: no detections at all.
NoDetections ==
  /\ pc = "nodet"
  /\ \E fault \in IoFaults :
       SaveAndReturn({}, frame_cropped, NotFoundPayload(frame_cropped), fault)
  /\ UNCHANGED <<request, expected_class, step_index, frame, frame_cropped,
                 crop_y_start, boxes, candidate_indices, best_i, best_conf,
                 yolo_class, image_points, pose_result, angles, annotated,
                 center_full, detCalls, poseVars>>

\* Lines 158-167: the detections of the expected class, and the working copy.
FilterByExpected ==
  /\ pc = "filter"
  /\ entered' = entered \cup {"Filtering"}
  /\ candidate_indices' = CandidatesFrom(boxes, expected_class, 0)
  /\ annotated' = frame_cropped
  /\ Continue(IF Len(candidate_indices') = 0 THEN "nomatch" ELSE "select")
  /\ UNCHANGED <<request, expected_class, step_index, frame, frame_cropped,
                 crop_y_start, boxes, best_i, best_conf, yolo_class,
                 image_points, pose_result, angles, center_full, detCalls,
                 poseVars>>

\* Lines 170-202: detections, none of the expected class; all are drawn.
NoMatch ==
  /\ pc = "nomatch"
  /\ \E drawFault \in BOOLEAN, fault \in IoFaults :
       IF drawFault
       THEN /\ entered' = entered \cup {"Annotating"}
            /\ Raise("cv2.error")
            /\ UNCHANGED annotated
       ELSE /\ annotated' = [annotated EXCEPT !.overlay = "all_boxes"]
            /\ SaveAndReturn({"Annotating"}, annotated',
                             NotFoundPayload(annotated'), fault)
  /\ UNCHANGED <<request, expected_class, step_index, frame, frame_cropped,
                 crop_y_start, boxes, candidate_indices, best_i, best_conf,
                 yolo_class, image_points, pose_result, angles, center_full,
                 detCalls, poseVars>>

\* Lines 206-213: the candidate of highest confidence.
SelectBest ==
  /\ pc = "select"
  /\ best_i' = PyMaxByConf(candidate_indices, boxes)
  /\ best_conf' = boxes[best_i' + 1].conf
  /\ yolo_class' = ClassName(boxes[best_i' + 1].cls)
  /\ angles' = NoAngles
  /\ Continue("kpts")
  /\ UNCHANGED <<request, expected_class, step_index, frame, frame_cropped,
                 crop_y_start, boxes, candidate_indices, image_points,
                 pose_result, annotated, center_full, entered, detCalls,
                 poseVars>>

\* What r.keypoints holds for the chosen detection: no keypoints at all,
\* fewer entries than best_i + 1, an entry whose extraction raises, or an
\* array of K rows of 2 coordinates.  Only this entry is ever read.
KptsViews ==
  {[kind |-> k, rows |-> <<>>] : k \in {"absent", "short", "bad"}}
    \cup {[kind |-> "rows", rows |-> a] : a \in KpArrays}

\* Lines 216-223: image_points, or None when the keypoints are missing or
\* their extraction raises (the inner except).
ExtractKeypoints ==
  /\ pc = "kpts"
  /\ entered' = entered \cup {"Keypoints"}
  /\ \E k \in KptsViews :
       image_points' = (IF k.kind = "rows" THEN k ELSE NoPoints)
  /\ Continue("pose")
  /\ UNCHANGED <<request, expected_class, step_index, frame, frame_cropped,
                 crop_y_start, boxes, candidate_indices, best_i, best_conf,
                 yolo_class, pose_result, angles, annotated, center_full,
                 detCalls, poseVars>>

\* Lines 225-233: estimate_pose on the keypoints, when there are any.
EstimatePose ==
  /\ pc = "pose"
  /\ entered' = entered \cup {"CentreEstimate"}
  /\ IF image_points = NoPoints
     THEN pose_result' = None /\ Continue("annotate")
     ELSE LET res == estimate_pose(image_points, yolo_class) IN
          IF res.raised
          THEN Raise("ValueError") /\ UNCHANGED pose_result
          ELSE pose_result' = <<res>> /\ Continue("annotate")
  /\ UNCHANGED <<request, expected_class, step_index, frame, frame_cropped,
                 crop_y_start, boxes, candidate_indices, best_i, best_conf,
                 yolo_class, image_points, angles, annotated, center_full,
                 detCalls, poseVars>>

\* Mutant of RemapToFull: the crop offset is not added back.
RemapNoOffset(cx_local, cy_local, y_offset) ==
  [x |-> cx_local, y |-> cy_local]

\* toFullImage: x unchanged, y moved down by the crop offset.
RemapToFull(cx_local, cy_local, y_offset) ==
  [x |-> cx_local, y |-> RatAddInt(cy_local, y_offset)]

\* isinstance(v, (int, float)) of a value of the pose dict.
IsNumber(v) == v # None

\* Lines 236-261: the angles and the full-image centre are taken from a
\* successful pose result and the overlay is drawn; otherwise box and label.
AnnotateAndRemap ==
  /\ pc = "annotate"
  /\ entered' = entered \cup {"Annotating"}
  /\ \E drawFault \in BOOLEAN :
       IF pose_result # None /\ pose_result[1].success
       THEN LET pr == pose_result[1] IN
            /\ angles' = [yaw |-> pr.yaw, pitch |-> pr.pitch,
                          roll |-> pr.roll,
                          reproj_error |-> pr.reproj_error]
            /\ center_full' =
                 (IF IsNumber(pr.center_x) /\ IsNumber(pr.center_y)
                  THEN RemapToFull(pr.center_x[1], pr.center_y[1],
                                   crop_y_start)
                  ELSE center_full)
            /\ IF drawFault
               THEN Raise("cv2.error") /\ UNCHANGED annotated
               ELSE /\ annotated' =
                         [annotated EXCEPT !.overlay = "box_center_label"]
                    /\ Continue("save")
       ELSE /\ UNCHANGED <<angles, center_full>>
            /\ IF drawFault
               THEN Raise("cv2.error") /\ UNCHANGED annotated
               ELSE /\ annotated' = [annotated EXCEPT !.overlay = "box_label"]
                    /\ Continue("save")
  /\ UNCHANGED <<request, expected_class, step_index, frame, frame_cropped,
                 crop_y_start, boxes, candidate_indices, best_i, best_conf,
                 yolo_class, image_points, pose_result, detCalls, poseVars>>

\* Lines 263-291: the debug write, the threshold test and the payload.
SaveFound ==
  /\ pc = "save"
  /\ \E fault \in IoFaults : SaveAndReturn({}, annotated, FoundPayload, fault)
  /\ UNCHANGED <<request, expected_class, step_index, frame, frame_cropped,
                 crop_y_start, boxes, candidate_indices, best_i, best_conf,
                 yolo_class, image_points, pose_result, angles, annotated,
                 center_full, detCalls, poseVars>>

\* The request is over; the handler's locals are gone and the next request
\* starts from nothing.
Finish ==
  /\ pc = "done"
  /\ pc' = "idle"
  /\ request' = NoRequest
  /\ expected_class' = <<>>
  /\ step_index' = -1
  /\ frame' = NoFrame
  /\ frame_cropped' = NoFrame
  /\ crop_y_start' = 0
  /\ boxes' = <<>>
  /\ candidate_indices' = <<>>
  /\ best_i' = 0
  /\ best_conf' = 0
  /\ yolo_class' = <<>>
  /\ image_points' = NoPoints
  /\ pose_result' = None
  /\ angles' = NoAngles
  /\ annotated' = NoFrame
  /\ center_full' = Sentinel
  /\ response' = NoResponse
  /\ sent' = 0
  /\ escaped' = FALSE
  /\ raised' = None
  /\ entered' = {}
  /\ detCalls' = 0
  /\ UNCHANGED poseVars

Next ==
  \/ Request
  \/ ParseRequest
  \/ DecodeImage
  \/ CropFrame
  \/ RunDetector
  \/ NoDetections
  \/ FilterByExpected
  \/ NoMatch
  \/ SelectBest
  \/ ExtractKeypoints
  \/ EstimatePose
  \/ AnnotateAndRemap
  \/ SaveFound
  \/ Finish

Spec == Init /\ [][Next]_vars

\* ------------------------------------------- lego_pose's API, called directly
Coords == {0, 2}

\* Rows of 0 to MaxCols coordinates.
KpRows == UNION {[1..n -> Coords] : n \in 0..MaxCols}

\* What a caller may hand to compute_center_from_keypoints: None, a number,
\* a flat sequence of numbers, or a sequence of 0 to MaxRows rows.
KpInputs ==
  {NoPoints, [kind |-> "scalar", rows |-> <<>>]}
    \cup {[kind |-> "flat", rows |-> r] :
            r \in UNION {[1..n -> {<<0>>, <<2>>}] : n \in 1..MaxRows}}
    \cup {[kind |-> "rows", rows |-> r] :
            r \in UNION {[1..n -> KpRows] : n \in 0..MaxRows}}

InitPose ==
  /\ pc = "off"
  /\ request = NoRequest
  /\ LocalsAtEntry
  /\ kp_pc = "input"
  /\ kp_in \in KpInputs
  /\ kp_center = NoCenter
  /\ kp_pose = estimate_pose(NoPoints, <<>>)

\* center = compute_center_from_keypoints(keypoints_2d)
PoseCallCenter ==
  /\ kp_pc = "input"
  /\ kp_center' = compute_center_from_keypoints(kp_in)
  /\ kp_pc' = "center"
  /\ UNCHANGED <<pc, request, expected_class, step_index, frame,
                 frame_cropped, crop_y_start, boxes, candidate_indices,
                 best_i, best_conf, yolo_class, image_points, pose_result,
                 angles, annotated, center_full, response, sent, escaped,
                 raised, entered, detCalls, kp_in, kp_pose>>

\* pose_result = estimate_pose(image, keypoints_2d, part_id)
PoseCallEstimate ==
  /\ kp_pc = "center"
  /\ kp_pose' = estimate_pose(kp_in, <<"A">>)
  /\ kp_pc' = "done"
  /\ UNCHANGED <<pc, request, expected_class, step_index, frame,
                 frame_cropped, crop_y_start, boxes, candidate_indices,
                 best_i, best_conf, yolo_class, image_points, pose_result,
                 angles, annotated, center_full, response, sent, escaped,
                 raised, entered, detCalls, kp_in, kp_center>>

NextPose == PoseCallCenter \/ PoseCallEstimate

SpecPose == InitPose /\ [][NextPose]_vars

\* ------------------------------------------------------------------ claims
\* The request was answered with a payload.
Responded == pc = "done" /\ sent = 1

\* The request was answered with a success=true payload.
Succeeded == Responded /\ response.success

\* t is raw without its leading and trailing whitespace.
IsTrimOf(t, raw) ==
  \E i \in 1..(Len(raw) + 1), j \in 0..Len(raw) :
    /\ t = SubSeq(raw, i, j)
    /\ \A k \in 1..(i - 1) : raw[k] \in Whitespace
    /\ \A k \in (j + 1)..Len(raw) : raw[k] \in Whitespace
    /\ t # <<>> => (t[1] \notin Whitespace /\ t[Len(t)] \notin Whitespace)

\* The positions (from 1) of the detections whose class name is the trimmed
\* expected_class of the request.
Matching ==
  {i \in 1..Len(boxes) : IsTrimOf(ClassName(boxes[i].cls), request.expected_raw)}

\* C1: in a success=true response found is true exactly when some detection
\* has the trimmed expected class, and the candidate then reported is the
\* detection of that class with the highest confidence, the earliest of
\* several; a detection of another class is never the one reported.
ThmC1_Selection ==
  Succeeded =>
    /\ response.found <=> Matching # {}
    /\ response.found =>
         LET b == best_i + 1 IN
         /\ b \in Matching
         /\ \A j \in Matching : boxes[j].conf <= boxes[b].conf
         /\ \A j \in Matching : j < b => boxes[j].conf < boxes[b].conf
         /\ response.confidence = boxes[b].conf
         /\ response.yolo_class = ClassName(boxes[b].cls)

\* Three detections, the first and third of the expected class with equal
\* confidence, the second of another class with a higher one: the first is
\* reported.
WitC1_TieAndOtherClass ==
  /\ Succeeded
  /\ response.found
  /\ request.expected_raw = <<" ", "A", "\t">>
  /\ boxes = <<[cls |-> 0, conf |-> 45], [cls |-> 7, conf |-> 90],
               [cls |-> 0, conf |-> 45]>>
  /\ best_i = 0
  /\ response.confidence = 45

\* C2: in a success=true response matched implies found, and found=false
\* implies matched=false, yolo_class "", confidence 0.0 and the centre
\* (-1.0, -1.0).
ThmC2_NotFoundShape ==
  Succeeded =>
    /\ response.matched => response.found
    /\ ~response.found =>
         /\ ~response.matched
         /\ response.yolo_class = <<>>
         /\ response.confidence = 0
         /\ response.center_x = Rat(-1, 1)
         /\ response.center_y = Rat(-1, 1)

\* found=false although the detector reported detections (of other classes).
WitC2_OnlyOtherClasses ==
  /\ Succeeded
  /\ ~response.found
  /\ Len(boxes) = 2
  /\ "Filtering" \in entered

\* C3: when found is true, matched is true exactly when the reported
\* confidence is at least 0.45.
ThmC3_Threshold ==
  (Succeeded /\ response.found) =>
    (response.matched <=> response.confidence >= 45)

\* A candidate below the threshold whose centre was computed: found, not
\* matched.
WitC3_BelowThresholdWithCentre ==
  /\ Succeeded
  /\ response.found
  /\ response.confidence = 44
  /\ ~response.matched
  /\ response.center_x # Rat(-1, 1)

\* The selected candidate has usable keypoints: at least one row of 2.
UsableKeypoints ==
  /\ image_points.kind = "rows"
  /\ Len(image_points.rows) > 0

\* C4: in a success=true response the centre is the mean of the selected
\* candidate's keypoints with the request's crop offset added to y, when
\* that candidate has usable keypoints, and (-1.0, -1.0) in every other
\* case; found and matched are the same with and without a centre.
ThmC4_Centre ==
  Succeeded =>
    IF response.found /\ UsableKeypoints
    THEN LET n == Len(image_points.rows)
             cx == response.center_x
             cy == response.center_y
         IN /\ cx.n * n = SumCol(image_points.rows, 1) * cx.d
            /\ (cy.n - crop_y_start * cy.d) * n
                 = SumCol(image_points.rows, 2) * cy.d
            /\ crop_y_start * 100 <= frame.h * 18
            /\ frame.h * 18 < (crop_y_start + 1) * 100
    ELSE /\ response.center_x = Rat(-1, 1)
         /\ response.center_y = Rat(-1, 1)
         /\ response.found <=> Matching # {}
         /\ response.matched <=> (response.found /\ response.confidence >= 45)

\* One keypoint (50, 60) in a frame of 1000 rows: the centre is (50, 240).
WitC4_Remapped ==
  /\ Succeeded
  /\ response.found
  /\ image_points.rows = <<<<50, 60>>>>
  /\ frame.h = 1000
  /\ response.center_x = Rat(50, 1)
  /\ response.center_y = Rat(240, 1)

AllFields ==
  {"success", "found", "matched", "yolo_class", "expected_class",
   "step_index", "confidence", "annotated_image", "yaw", "pitch", "roll",
   "reproj_error", "center_x", "center_y"}

BadRequestBody ==
  \/ ~request.json_ok
  \/ ~request.has_image
  \/ ~request.has_expected
  \/ ~request.image.b64
  \/ ~request.image.img

\* C7: a request without image or expected_class, or with an image that
\* cannot be decoded, ends with success=false and an error without entering
\* cropping, detection, filtering, annotation or the debug write; the
\* detector is called at most once, and only on a decoded frame.
ThmC7_EarlyExit ==
  /\ (pc \notin {"idle", "off"} /\ BadRequestBody) =>
       /\ pc \in {"parse", "decode", "done"}
       /\ entered \subseteq {"Parsing", "Decoding"}
       /\ detCalls = 0
       /\ pc = "done" =>
            (sent = 1 /\ ~response.success /\ "error" \in DOMAIN response)
  /\ detCalls <= 1
  /\ detCalls = 1 =>
       ("Decoding" \in entered /\ request.image.img /\ frame.h > 0)
  /\ (detCalls = 1 /\ raised = <<"RuntimeError">>) => pc = "done"

\* The bytes are base64 but no image: the request ended after decoding.
WitC7_DecodeFailure ==
  /\ pc = "done"
  /\ request.has_image /\ request.has_expected
  /\ request.image.b64 /\ ~request.image.img
  /\ entered = {"Parsing", "Decoding"}
  /\ sent = 1

\* C8: the crop offset is floor(height * 0.18), the crop ends before row
\* floor(height * 0.85), and a request whose crop has no rows never ends
\* with a success=true payload.
ThmC8_Crop ==
  "Cropping" \in entered =>
    /\ crop_y_start * 100 <= frame.h * 18
    /\ frame.h * 18 < (crop_y_start + 1) * 100
    /\ LET y_end == crop_y_start + frame_cropped.h IN
       IF frame_cropped.h > 0
       THEN /\ y_end * 100 <= frame.h * 85
            /\ frame.h * 85 < (y_end + 1) * 100
       ELSE frame.h * 85 < (crop_y_start + 1) * 100
    /\ frame_cropped.w = frame.w
    /\ (frame_cropped.h = 0 /\ pc = "done") => (sent = 1 /\ ~response.success)

\* A frame of 1 row: the detector returned detections for the empty crop and
\* the debug write raised.
WitC8_EmptyCrop ==
  /\ pc = "done"
  /\ frame.h = 1
  /\ frame_cropped.h = 0
  /\ Len(boxes) > 0
  /\ "DebugWrite" \in entered
  /\ ~response.success

\* C9: in a success=true response yaw, pitch, roll and reproj_error are
\* present and null, and the pose result holds None for the four, when it
\* succeeded and when it did not.
ThmC9_NullAngles ==
  /\ Succeeded =>
       /\ {"yaw", "pitch", "roll", "reproj_error"} \subseteq DOMAIN response
       /\ response.yaw = None
       /\ response.pitch = None
       /\ response.roll = None
       /\ response.reproj_error = None
  /\ pose_result # None =>
       /\ pose_result[1].yaw = None
       /\ pose_result[1].pitch = None
       /\ pose_result[1].roll = None
       /\ pose_result[1].reproj_error = None

\* A found candidate whose centre was computed.
WitC9_AnglesWithCentre ==
  /\ Succeeded
  /\ response.found
  /\ pose_result # None
  /\ pose_result[1].success
  /\ response.center_y = Rat(542, 3)

\* The input is a non-empty sequence of rows of exactly 2 coordinates.
IsPoints2D(x) ==
  /\ x.kind = "rows"
  /\ Len(x.rows) > 0
  /\ \A i \in 1..Len(x.rows) : Len(x.rows[i]) = 2

\* C10 as stated: compute_center_from_keypoints never raises; it returns
\* None for every input that is not a non-empty sequence of 2D points (rows
\* of differing length included) and the pair of means otherwise;
\* estimate_pose reports success=False without a centre exactly when that
\* result is None.
OrigC10_NeverRaises ==
  /\ kp_pc \in {"center", "done"} =>
       /\ kp_center.kind # "raise"
       /\ IF IsPoints2D(kp_in)
          THEN /\ kp_center.kind = "center"
               /\ kp_center.cx.n * Len(kp_in.rows)
                    = SumCol(kp_in.rows, 1) * kp_center.cx.d
               /\ kp_center.cy.n * Len(kp_in.rows)
                    = SumCol(kp_in.rows, 2) * kp_center.cy.d
          ELSE kp_center.kind = "none"
  /\ kp_pc = "done" =>
       /\ ~kp_pose.raised
       /\ (~kp_pose.success /\ kp_pose.center_x = None
             /\ kp_pose.center_y = None)
            <=> kp_center.kind = "none"

=============================================================================
